---- MODULE Spec2Model ----
(***************************************************************************)
(* The match page of the CompareAI client (client/src/pages/match-page.tsx) *)
(* as a state machine: one mounted MatchPage, its useQuery cache entry, its *)
(* two mutations, the requests it has in flight and the backend's record of *)
(* the match.                                                                *)
(*                                                                           *)
(* JavaScript values are records [tag, val]: a number carries its value in   *)
(* eighths (val = 13 is 1.625), so every score is an exact binary fraction   *)
(* and Number.prototype.toFixed rounds it without representation error.      *)
(***************************************************************************)
EXTENDS Integers, Sequences, FiniteSets, TLC

\* Largest score the backend hands out, in eighths.
MaxScore == 4

---------------------------------------------------------------------------
\* JavaScript values

Null == [tag |-> "null", val |-> 0]

Num(n) == [tag |-> "number", val |-> n]

Scores == {Num(n) : n \in 0..MaxScore}

OptScores == Scores \cup {Null}

UserIds == {"u1", "u2", "u3"}

MatchIds == {"m1", "m2"}

Files == {"a.png", "b.png"}

NoFile == "null"

NoUser == "undefined"

\* A FormData without a "photo" field.
NoPhoto == "absent"

StatusValues == {"pending", "ready", "completed"}

\* Number(x): a number is itself, Number(null) is 0.
NumberOf(x) == IF x.tag = "number" THEN x.val ELSE 0

\* x ? a : b tests truthiness: null and the number 0 are falsy.
Truthy(x) == x.tag = "number" /\ x.val # 0

\* x === y on numbers and null.
StrictEq(x, y) == x = y

\* The text of a score: the dash, or the digits toFixed(1) prints.
Dash == [kind |-> "-", int |-> 0, frac |-> 0]

\* Number.prototype.toFixed(1): the integer n with n/10 closest to x, the
\* larger n on a tie; x = v/8, so n = floor(10v/8 + 1/2) = (5v + 2) div 4.
ToFixed1(v) ==
    LET n == (5 * v + 2) \div 4
    IN  [kind |-> "fixed", int |-> n \div 10, frac |-> n % 10]

\* String(accept)
StringOf(b) == IF b THEN "true" ELSE "false"

---------------------------------------------------------------------------
\* State

VARIABLES
    params,           \* useRoute("/match/:id"): the route's id
    user,             \* useAuth().user: the viewer's id, or NoUser
    selectedFile,     \* useState<File | null>
    query,            \* the useQuery cache entry of the match
    respondMutation,  \* [status, error] of respondMutation
    compareMutation,  \* [status, error] of compareMutation
    net,              \* POST requests in flight, in the order sent
    toast,            \* the toast last shown
    backend,          \* the backend's record of the match
    declined,         \* a decline of this page has succeeded
    lastEvent         \* what the last step was

vars == <<params, user, selectedFile, query, respondMutation, compareMutation,
          net, toast, backend, declined, lastEvent>>

NoData == [id |-> "undefined", creatorId |-> "undefined", invitedId |-> "undefined",
           status |-> "undefined", creatorScore |-> Null, invitedScore |-> Null]

NoToast == [title |-> "", variant |-> "", scores |-> <<>>]

IdleMutation == [status |-> "idle", error |-> ""]

Event(kind, accept, file) == [kind |-> kind, accept |-> accept, file |-> file]

\* queryKey: [`/api/matches/${params?.id}`]
QueryKey(id) == <<"/api/matches", id>>

\* queryClient.invalidateQueries({ queryKey }): the entry of that key is marked
\* invalid and, being mounted, refetched.
InvalidateQueries(q, key) ==
    IF q.key = key
    THEN [q EXCEPT !.isInvalidated = TRUE, !.fetchStatus = "fetching"]
    ELSE q

\* s without its i-th element.
Remove(s, i) == SubSeq(s, 1, i - 1) \o SubSeq(s, i + 1, Len(s))

InFlight(endpoint) == {i \in 1..Len(net) : net[i].endpoint = endpoint}

---------------------------------------------------------------------------
\* What the page renders (lines 74-234)

match == query.data

\* useQuery's isLoading: no data yet and the first fetch is running.
isLoading == query.status = "pending" /\ query.fetchStatus = "fetching"

HasMatch == ~isLoading /\ match # NoData

isCreator(m, u) == u = m.creatorId

isPending(m) == m.status = "pending"

isReady(m) == m.status = "ready"

isCompleted(m) == m.status = "completed"

ShowRespond(m, u) == isPending(m) /\ ~isCreator(m, u)

ShowWaiting(m, u) == isPending(m) /\ isCreator(m, u)

ShowCompare(m, u) == isReady(m) /\ isCreator(m, u)

\* A variant: the processing notice without its role test.
ShowProcessingAnyRole(m, u) == isReady(m)

ShowProcessing(m, u) == isReady(m) /\ ~isCreator(m, u)

ShowResult(m, u) == isCompleted(m)

\* The blocks of the card that render for snapshot m and viewer u.
Views(m, u) ==
    {v \in {"respond", "waiting", "compare", "processing", "result"} :
        \/ v = "respond" /\ ShowRespond(m, u)
        \/ v = "waiting" /\ ShowWaiting(m, u)
        \/ v = "compare" /\ ShowCompare(m, u)
        \/ v = "processing" /\ ShowProcessing(m, u)
        \/ v = "result" /\ ShowResult(m, u)}

\* What the component returns: the progress bar, nothing, or the card.
Rendered ==
    IF isLoading THEN {"loading"}
    ELSE IF match = NoData THEN {}
    ELSE Views(match, user)

---------------------------------------------------------------------------
\* The result view (lines 187-230)

\* A variant: the scores compared from the creator's side whoever looks.
WonAsCreator(m, u) == NumberOf(m.creatorScore) > NumberOf(m.invitedScore)

\* The condition both the Alert's className and its message test second.
Won(m, u) ==
    IF isCreator(m, u)
    THEN NumberOf(m.creatorScore) > NumberOf(m.invitedScore)
    ELSE NumberOf(m.invitedScore) > NumberOf(m.creatorScore)

\* className of the result Alert (lines 189-191)
AlertClass(m, u) ==
    IF StrictEq(m.creatorScore, m.invitedScore) THEN "bg-blue-500/10"
    ELSE IF Won(m, u) THEN "bg-green-500/10"
    ELSE "bg-red-500/10"

\* AlertDescription of the result Alert (lines 195-199)
AlertMessage(m, u) ==
    IF StrictEq(m.creatorScore, m.invitedScore) THEN "It's a tie!"
    ELSE IF Won(m, u) THEN "You won!"
    ELSE "Your friend won!"

\* score ? Number(score).toFixed(1) : '-'
ScoreText(score) == IF Truthy(score) THEN ToFixed1(NumberOf(score)) ELSE Dash

\* "Your Score" (lines 207-213)
YourScoreText(m, u) ==
    IF isCreator(m, u) THEN ScoreText(m.creatorScore) ELSE ScoreText(m.invitedScore)

\* "Their Score" (lines 219-225)
TheirScoreText(m, u) ==
    IF isCreator(m, u) THEN ScoreText(m.invitedScore) ELSE ScoreText(m.creatorScore)

---------------------------------------------------------------------------
\* The buttons (lines 129-143, 167-173)

MutationIsPending(mutation) == mutation.status = "pending"

AcceptDisabled == selectedFile = NoFile \/ MutationIsPending(respondMutation)

\* A variant: a Decline button without its disabled attribute.
DeclineDisabledNever == FALSE

DeclineDisabled == MutationIsPending(respondMutation)

\* A variant: a Compare button without its disabled attribute.
CompareDisabledNever == FALSE

CompareDisabled == MutationIsPending(compareMutation)

AcceptEnabled == "respond" \in Rendered /\ ~AcceptDisabled

DeclineEnabled == "respond" \in Rendered /\ ~DeclineDisabled

CompareEnabled == "compare" \in Rendered /\ ~CompareDisabled

---------------------------------------------------------------------------
\* The backend, as the specification describes it: it owns the match, moves
\* it pending -> ready -> completed, and records one decision per match.

BackendStates(id) ==
    {[match |-> [id |-> id, creatorId |-> c, invitedId |-> i, status |-> st,
                 creatorScore |-> cs, invitedScore |-> is],
      decided |-> d] :
        c \in UserIds, i \in UserIds, st \in StatusValues,
        cs \in OptScores, is \in OptScores, d \in BOOLEAN}

ValidBackend(b) ==
    /\ b.match.creatorId # b.match.invitedId
    /\ b.match.status # "completed" =>
            b.match.creatorScore = Null /\ b.match.invitedScore = Null
    /\ b.match.status # "pending" => b.decided

\* POST /respond succeeds for the invited participant's first decision; an
\* acceptance has to carry the photo.
BackendAcceptsRespond(req) ==
    /\ req.id = backend.match.id
    /\ req.session = backend.match.invitedId
    /\ backend.match.status = "pending"
    /\ ~backend.decided
    /\ req.accept = "true" => req.photo # NoPhoto

BackendRespond(req) ==
    [backend EXCEPT !.decided = TRUE,
                    !.match.status = IF req.accept = "true" THEN "ready" ELSE @]

\* POST /compare succeeds for the creator of a ready match.
BackendAcceptsCompare(req) ==
    /\ req.id = backend.match.id
    /\ req.session = backend.match.creatorId
    /\ backend.match.status = "ready"

BackendCompare(cs, is) ==
    [backend EXCEPT !.match.status = "completed",
                    !.match.creatorScore = cs,
                    !.match.invitedScore = is]

---------------------------------------------------------------------------
\* The query (lines 21-23)

Init ==
    /\ params \in MatchIds
    /\ user \in UserIds \cup {NoUser}
    /\ selectedFile = NoFile
    /\ query = [key |-> QueryKey(params), status |-> "pending",
                fetchStatus |-> "fetching", isInvalidated |-> FALSE, data |-> NoData]
    /\ respondMutation = IdleMutation
    /\ compareMutation = IdleMutation
    /\ net = <<>>
    /\ toast = NoToast
    /\ backend \in {b \in BackendStates(params) : ValidBackend(b)}
    /\ declined = FALSE
    /\ lastEvent = Event("mount", FALSE, NoFile)

\* GET /api/matches/{id} answers with the backend's match.
FetchResolve ==
    /\ query.fetchStatus = "fetching"
    /\ query' = [query EXCEPT !.status = "success", !.fetchStatus = "idle",
                              !.isInvalidated = FALSE, !.data = backend.match]
    /\ lastEvent' = Event("fetched", FALSE, NoFile)
    /\ UNCHANGED <<params, user, selectedFile, respondMutation, compareMutation,
                   net, toast, backend, declined>>

\* The GET fails: the entry keeps the data it had.
FetchFail ==
    /\ query.fetchStatus = "fetching"
    /\ query' = [query EXCEPT !.status = "error", !.fetchStatus = "idle"]
    /\ lastEvent' = Event("fetchFailed", FALSE, NoFile)
    /\ UNCHANGED <<params, user, selectedFile, respondMutation, compareMutation,
                   net, toast, backend, declined>>

\* onChange of the file input (line 116): e.target.files?.[0] ?? null
SelectFile(f) ==
    /\ "respond" \in Rendered
    /\ selectedFile' = f
    /\ lastEvent' = Event("selectFile", FALSE, f)
    /\ UNCHANGED <<params, user, query, respondMutation, compareMutation,
                   net, toast, backend, declined>>

---------------------------------------------------------------------------
\* respondMutation (lines 25-51)

\* A variant: mutationFn without its check of the file.
RespondThrowsNever(accept) == FALSE

\* A variant: the check of the file made for a decline too.
RespondThrowsWithoutFile(accept) == selectedFile = NoFile

\* line 27: if (accept && !selectedFile) throw new Error("No file selected")
RespondThrows(accept) == accept /\ selectedFile = NoFile

\* lines 29-37: the FormData and the POST it is the body of
RespondRequest(accept) ==
    [endpoint |-> "respond", id |-> params, accept |-> StringOf(accept),
     photo |-> IF selectedFile # NoFile THEN selectedFile ELSE NoPhoto,
     session |-> user]

\* respondMutation.mutate(accept): the mutation turns pending and mutationFn
\* runs to its throw or to its fetch. There is no onError: a throw only
\* leaves the mutation in its error state.
RespondMutate(accept) ==
    /\ IF RespondThrows(accept)
       THEN /\ respondMutation' = [status |-> "error", error |-> "No file selected"]
            /\ net' = net
       ELSE /\ respondMutation' = [status |-> "pending", error |-> ""]
            /\ net' = Append(net, RespondRequest(accept))
    /\ lastEvent' = Event("respond", accept, selectedFile)
    /\ UNCHANGED <<params, user, selectedFile, query, toast, backend, declined>>
    /\ UNCHANGED compareMutation

\* onSuccess (lines 44-50): the query and the toast it leaves
RespondOnSuccess ==
    [query |-> InvalidateQueries(query, QueryKey(params)),
     toast |-> [title |-> "Response sent", variant |-> "default", scores |-> <<>>]]

\* The Accept Challenge button (lines 130-135)
ClickAccept == AcceptEnabled /\ RespondMutate(TRUE)

\* The Decline button (lines 136-142)
ClickDecline == DeclineEnabled /\ RespondMutate(FALSE)

\* res.ok: mutationFn returns and onSuccess runs.
RespondOk ==
    \E i \in InFlight("respond") :
        /\ BackendAcceptsRespond(net[i])
        /\ backend' = BackendRespond(net[i])
        /\ net' = Remove(net, i)
        /\ respondMutation' = [status |-> "success", error |-> ""]
        /\ query' = RespondOnSuccess.query
        /\ toast' = RespondOnSuccess.toast
        /\ declined' = (declined \/ net[i].accept = "false")
        /\ lastEvent' = Event("respondSuccess", net[i].accept = "true", selectedFile)
        /\ UNCHANGED <<params, user, selectedFile, compareMutation>>

\* !res.ok (lines 39-42): mutationFn throws the body's text.
RespondRejected ==
    \E i \in InFlight("respond") :
        /\ net' = Remove(net, i)
        /\ respondMutation' = [status |-> "error", error |-> "response body"]
        /\ lastEvent' = Event("respondError", net[i].accept = "true", selectedFile)
        /\ UNCHANGED <<params, user, selectedFile, query, compareMutation, toast,
                       backend, declined>>

\* fetch itself rejects (line 33).
RespondFailed ==
    \E i \in InFlight("respond") :
        /\ net' = Remove(net, i)
        /\ respondMutation' = [status |-> "error", error |-> "Failed to fetch"]
        /\ lastEvent' = Event("respondError", net[i].accept = "true", selectedFile)
        /\ UNCHANGED <<params, user, selectedFile, query, compareMutation, toast,
                       backend, declined>>

---------------------------------------------------------------------------
\* compareMutation (lines 53-72)

\* line 55: apiRequest("POST", `/api/matches/${params?.id}/compare`)
CompareRequest ==
    [endpoint |-> "compare", id |-> params, accept |-> "", photo |-> NoPhoto,
     session |-> user]

\* onSuccess (lines 58-64) on the response's data
CompareOnSuccess(data) ==
    [query |-> InvalidateQueries(query, QueryKey(params)),
     toast |-> [title |-> "Comparison complete", variant |-> "default",
                scores |-> <<ToFixed1(data.creatorScore.val),
                             ToFixed1(data.invitedScore.val)>>]]

\* A variant: an onError that invalidates the query as onSuccess does.
CompareOnErrorInvalidates ==
    [query |-> InvalidateQueries(query, QueryKey(params)),
     toast |-> [title |-> "Comparison failed", variant |-> "destructive",
                scores |-> <<>>]]

\* onError (lines 65-71)
CompareOnError ==
    [query |-> query,
     toast |-> [title |-> "Comparison failed", variant |-> "destructive",
                scores |-> <<>>]]

\* The Compare Photos button (lines 167-173): compareMutation.mutate()
ClickCompare ==
    /\ CompareEnabled
    /\ compareMutation' = [status |-> "pending", error |-> ""]
    /\ net' = Append(net, CompareRequest)
    /\ lastEvent' = Event("compare", FALSE, NoFile)
    /\ UNCHANGED <<params, user, selectedFile, query, respondMutation, toast,
                   backend, declined>>

\* The backend scores both photos and answers {creatorScore, invitedScore}.
CompareOk ==
    \E i \in InFlight("compare") : \E cs \in Scores, is \in Scores :
        /\ BackendAcceptsCompare(net[i])
        /\ backend' = BackendCompare(cs, is)
        /\ net' = Remove(net, i)
        /\ compareMutation' = [status |-> "success", error |-> ""]
        /\ query' = CompareOnSuccess([creatorScore |-> cs, invitedScore |-> is]).query
        /\ toast' = CompareOnSuccess([creatorScore |-> cs, invitedScore |-> is]).toast
        /\ lastEvent' = Event("compareSuccess", FALSE, NoFile)
        /\ UNCHANGED <<params, user, selectedFile, respondMutation, declined>>

\* apiRequest throws on a response that is not ok.
CompareRejected ==
    \E i \in InFlight("compare") :
        /\ net' = Remove(net, i)
        /\ compareMutation' = [status |-> "error", error |-> "response body"]
        /\ query' = CompareOnError.query
        /\ toast' = CompareOnError.toast
        /\ lastEvent' = Event("compareError", FALSE, NoFile)
        /\ UNCHANGED <<params, user, selectedFile, respondMutation, backend, declined>>

\* The request itself fails.
CompareFailed ==
    \E i \in InFlight("compare") :
        /\ net' = Remove(net, i)
        /\ compareMutation' = [status |-> "error", error |-> "Failed to fetch"]
        /\ query' = CompareOnError.query
        /\ toast' = CompareOnError.toast
        /\ lastEvent' = Event("compareError", FALSE, NoFile)
        /\ UNCHANGED <<params, user, selectedFile, respondMutation, backend, declined>>

---------------------------------------------------------------------------
\* The other participant, on a page of their own

OtherAccepts ==
    /\ backend.match.status = "pending"
    /\ ~backend.decided
    /\ backend' = [backend EXCEPT !.decided = TRUE, !.match.status = "ready"]
    /\ lastEvent' = Event("otherAccepts", FALSE, NoFile)
    /\ UNCHANGED <<params, user, selectedFile, query, respondMutation,
                   compareMutation, net, toast, declined>>

OtherCompares ==
    \E cs \in Scores, is \in Scores :
        /\ backend.match.status = "ready"
        /\ backend' = BackendCompare(cs, is)
        /\ lastEvent' = Event("otherCompares", FALSE, NoFile)
        /\ UNCHANGED <<params, user, selectedFile, query, respondMutation,
                       compareMutation, net, toast, declined>>

---------------------------------------------------------------------------
\* The page in use: every request starts at a button.

Next ==
    \/ FetchResolve
    \/ FetchFail
    \/ \E f \in Files \cup {NoFile} : SelectFile(f)
    \/ ClickAccept
    \/ ClickDecline
    \/ RespondOk
    \/ RespondRejected
    \/ RespondFailed
    \/ ClickCompare
    \/ CompareOk
    \/ CompareRejected
    \/ CompareFailed
    \/ OtherAccepts
    \/ OtherCompares

Spec == Init /\ [][Next]_vars

---------------------------------------------------------------------------
\* The actions called directly: Respond(accept) without the buttons' tests of
\* the file, of the view and of the role; one call at a time.

InvokeRespond(accept) ==
    /\ ~MutationIsPending(respondMutation)
    /\ RespondMutate(accept)

NextAction ==
    \/ FetchResolve
    \/ FetchFail
    \/ \E f \in Files \cup {NoFile} : SelectFile(f)
    \/ \E accept \in BOOLEAN : InvokeRespond(accept)
    \/ RespondOk
    \/ RespondRejected
    \/ RespondFailed
    \/ ClickCompare
    \/ CompareOk
    \/ CompareRejected
    \/ CompareFailed

SpecAction == Init /\ [][NextAction]_vars

---------------------------------------------------------------------------
\* Properties

\* The view the table of the five views gives for a status and a role.
ExpectedView(status, creator) ==
    CASE status = "pending" /\ ~creator -> "respond"
      [] status = "pending" /\ creator -> "waiting"
      [] status = "ready" /\ creator -> "compare"
      [] status = "ready" /\ ~creator -> "processing"
      [] status = "completed" -> "result"

\* C1: for every snapshot and every viewer (the creator, another user, no
\* user) the page renders exactly one of the five views, the one the table
\* gives for (status, viewer's id = creatorId).
C1_ExactlyOneView ==
    HasMatch =>
        /\ Cardinality(Rendered) = 1
        /\ Rendered = {ExpectedView(match.status, user = match.creatorId)}

\* C1's case: no viewer is signed in and a pending match shows the respond view.
C1_Witness ==
    /\ HasMatch
    /\ user = NoUser
    /\ match.status = "pending"
    /\ Rendered = {"respond"}

\* C2: Compare is enabled exactly when the snapshot is ready, the viewer is
\* the creator and no Compare request is outstanding.
C2_CompareEnabledIff ==
    CompareEnabled <=>
        /\ HasMatch
        /\ match.status = "ready"
        /\ user = match.creatorId
        /\ InFlight("compare") = {}

\* C2's case: Compare was just invoked on a ready match and is disabled.
C2_Witness ==
    /\ lastEvent.kind = "compare"
    /\ HasMatch /\ match.status = "ready" /\ user = match.creatorId
    /\ InFlight("compare") # {}
    /\ ~CompareEnabled

\* C3: Respond(accept = true) with no photo selected ends in the error
\* "No file selected" and sends nothing.
C3_AcceptWithoutPhotoIsLocal ==
    [][(lastEvent'.kind = "respond" /\ lastEvent'.accept /\ selectedFile = NoFile)
        => /\ net' = net
           /\ respondMutation' = [status |-> "error", error |-> "No file selected"]]_vars

\* C3's case: an acceptance was invoked with no file selected.
C3_Witness ==
    /\ lastEvent = Event("respond", TRUE, NoFile)
    /\ respondMutation.error = "No file selected"
    /\ InFlight("respond") = {}

\* C4: Respond(accept = false) always sends one request to the match's
\* respond endpoint with accept = "false", a file selected or not.
C4_DeclineAlwaysSends ==
    [][(lastEvent'.kind = "respond" /\ ~lastEvent'.accept)
        => /\ Len(net') = Len(net) + 1
           /\ SubSeq(net', 1, Len(net)) = net
           /\ net'[Len(net')].endpoint = "respond"
           /\ net'[Len(net')].id = params
           /\ net'[Len(net')].accept = "false"
           /\ respondMutation'.status = "pending"]_vars

\* C4's case: a decline was invoked with no file selected and its request is
\* in flight without a photo.
C4_Witness ==
    /\ lastEvent = Event("respond", FALSE, NoFile)
    /\ \E i \in InFlight("respond") : net[i].accept = "false" /\ net[i].photo = NoPhoto

\* C5: with two numeric scores the result view says exactly one of tie, win,
\* loss: tie iff the scores are equal, else win iff the viewer's own score
\* is the greater, else loss; the colour follows the same classification.
C5_Outcome ==
    ("result" \in Rendered /\ match.creatorScore \in Scores /\ match.invitedScore \in Scores)
    => LET c == match.creatorScore.val
           i == match.invitedScore.val
           my == IF user = match.creatorId THEN c ELSE i
           their == IF user = match.creatorId THEN i ELSE c
           msg == AlertMessage(match, user)
           cls == AlertClass(match, user)
       IN  /\ msg \in {"It's a tie!", "You won!", "Your friend won!"}
           /\ msg = "It's a tie!" <=> c = i
           /\ msg = "You won!" <=> (c # i /\ my > their)
           /\ msg = "Your friend won!" <=> (c # i /\ ~(my > their))
           /\ cls = "bg-blue-500/10" <=> msg = "It's a tie!"
           /\ cls = "bg-green-500/10" <=> msg = "You won!"
           /\ cls = "bg-red-500/10" <=> msg = "Your friend won!"

\* C5's case: the invited participant looks at a match they won.
C5_Witness ==
    /\ "result" \in Rendered
    /\ match.creatorScore \in Scores /\ match.invitedScore \in Scores
    /\ user = match.invitedId
    /\ match.invitedScore.val > match.creatorScore.val
    /\ AlertMessage(match, user) = "You won!"

\* C6: at most one Respond request and at most one Compare request are in
\* flight.
C6_OneInFlight ==
    /\ Cardinality(InFlight("respond")) <= 1
    /\ Cardinality(InFlight("compare")) <= 1

\* C6's case: a file is picked while a Respond request is outstanding, and
\* neither button can submit another.
C6_Witness ==
    /\ lastEvent.kind = "selectFile"
    /\ selectedFile # NoFile
    /\ Cardinality(InFlight("respond")) = 1
    /\ ~AcceptEnabled /\ ~DeclineEnabled

SuccessEvents == {"respondSuccess", "compareSuccess"}

\* A step in which a Respond or a Compare fails: locally, by the backend's
\* answer or on the network.
FailureStep ==
    \/ lastEvent'.kind \in {"respondError", "compareError"}
    \/ lastEvent'.kind = "respond" /\ respondMutation'.status = "error"

\* C7: a successful Respond or Compare invalidates the cached snapshot and
\* starts its refetch; a failed one leaves the cache entry as it was; nothing
\* else invalidates it.
C7_InvalidateOnSuccessOnly ==
    [][/\ lastEvent'.kind \in SuccessEvents
            => query'.isInvalidated /\ query'.fetchStatus = "fetching"
       /\ FailureStep => query' = query
       /\ (query'.isInvalidated /\ ~query.isInvalidated)
            => lastEvent'.kind \in SuccessEvents]_vars

\* C7's case: a Compare has failed and the snapshot is still valid and at rest.
C7_Witness ==
    /\ lastEvent.kind = "compareError"
    /\ HasMatch
    /\ ~query.isInvalidated
    /\ query.fetchStatus = "idle"

\* C8: after every failure of a Respond or a Compare the viewer is shown a
\* notification of the failure.
C8_EveryFailureNotified ==
    (\/ lastEvent.kind \in {"respondError", "compareError"}
     \/ lastEvent.kind = "respond" /\ respondMutation.status = "error")
    => toast.variant = "destructive"

\* C9: once a decline has succeeded the page offers no Respond again.
C9_NoRespondAfterDecline ==
    declined => ~AcceptEnabled /\ ~DeclineEnabled

\* The text a score is to show as: the dash iff it is absent, else the tenth
\* nearest to its value (v eighths are n tenths when |10v - 8n| <= 4).
ShownAsSpecified(score, text) ==
    /\ text = Dash <=> score = Null
    /\ score \in Scores =>
            /\ text.kind = "fixed"
            /\ text.frac \in 0..9
            /\ LET n == 10 * text.int + text.frac
                    d == 10 * score.val - 8 * n
               IN  -4 <= d /\ d <= 4

\* C10: in the result view "Your Score" and "Their Score" show the dash iff
\* the score is absent, and every present score, 0 included, rounded to one
\* decimal place.
C10_ScoreDisplay ==
    "result" \in Rendered =>
        LET mine == IF user = match.creatorId THEN match.creatorScore ELSE match.invitedScore
            theirs == IF user = match.creatorId THEN match.invitedScore ELSE match.creatorScore
        IN  /\ ShownAsSpecified(mine, YourScoreText(match, user))
            /\ ShownAsSpecified(theirs, TheirScoreText(match, user))

====
